---- MODULE Spec2Model ----
(***************************************************************************)
(* Model of the personal question bank: the knowledge-point manager        *)
(* (src/src/kp_manager.py), the question manager                           *)
(* (src/src/question_manager.py) and the command layer that constructs     *)
(* them once per invocation (src/main.py).                                 *)
(*                                                                         *)
(* JSON values are modelled as TLA+ records.  A JSON object is a record    *)
(* with kind = "dict"; any other JSON value (string, number, list, null)   *)
(* found where an object is expected is the single value Junk.  A key that *)
(* a dict does not carry has the value NoKey.                              *)
(***************************************************************************)
EXTENDS Integers, Sequences, FiniteSets, TLC

VARIABLES
    file,       \* knowledge_points.json: [state, data]
    kps,        \* KnowledgePointManager.kps
    kp_index,   \* KnowledgePointManager.kp_index
    pc,         \* position of the invocation that owns the manager
    result,     \* what the last operation returned or raised
    called,     \* history: the arguments and the state the operation started from
    walk,       \* get_ancestry in progress: its argument, locals and return value
    outline,    \* print_outline in progress: its call stack and the lines printed
    qfile,      \* questions.json: [state, data]
    questions,  \* QuestionManager.questions
    issued,     \* identifiers uuid.uuid4() has produced so far
    clock,      \* datetime.utcnow()
    qresult,    \* what the last question operation returned or raised
    qcalled,    \* history: its argument and the state it started from
    procs,      \* concurrent invocations: per process [pc, kps, questions, ...]
    saves       \* history: the order in which concurrent invocations saved

vars == <<file, kps, kp_index, pc, result, called, walk, outline,
          qfile, questions, issued, clock, qresult, qcalled, procs, saves>>

kpVars   == <<file, kps, kp_index, pc, result, called>>
qVars    == <<qfile, questions, issued, clock, qresult, qcalled>>
raceVars == <<procs, saves>>

----------------------------------------------------------------------------
(* Bounds of the model.                                                    *)

MaxKps == 3         \* longest knowledge-point collection explored
MaxBatch == 2       \* longest incoming batch
MaxTree == 3        \* longest collection loaded for the ancestry walk
MaxQuestions == 3   \* longest question collection explored
MaxClock == 2       \* latest reading of the clock
MaxRaceBatch == 1   \* longest batch a concurrent invocation imports

----------------------------------------------------------------------------
(* JSON values.                                                            *)

NoKey == "<absent>"     \* dict.get(key) is None because the key is missing
Null  == "<null>"       \* JSON null / Python None

KPIDS  == {"A", "B"}
TITLES == {"old", "new"}
EmptyKpid == ""         \* a kpid key that is present and holds a falsy value

Dict(k, p, t) == [kind |-> "dict", kpid |-> k, parentId |-> p, title |-> t]
Junk == [kind |-> "other", kpid |-> NoKey, parentId |-> Null, title |-> "junk"]

\* Records an import batch is drawn from: with a kpid, with an empty kpid,
\* or without the key.
KpRecords == {Dict(k, Null, t) : k \in KPIDS, t \in TITLES}
                 \cup {Dict(NoKey, Null, "old"), Dict(EmptyKpid, Null, "old")}
KpElements == KpRecords \cup {Junk}

\* Python truthiness of a value read with .get(): None is false.
Truthy(v) == v # NoKey /\ v # Null /\ v # ""

SeqsUpTo(S, n) == UNION {[1..m -> S] : m \in 0..n}
Range(s) == {s[i] : i \in DOMAIN s}

\* The file on disk: parseable JSON, zero bytes, a partial write, or missing.
JsonFile(data) == [state |-> "json", data |-> data]
EmptyFile   == [state |-> "empty", data |-> <<>>]
PartialFile == [state |-> "partial", data |-> <<>>]
AbsentFile  == [state |-> "absent", data |-> <<>>]

\* What can happen to one open(path, 'w') + json.dump.
IOOutcomes == {"ok", "denied", "full"}

----------------------------------------------------------------------------
(* KnowledgePointManager                                                   *)

EmptyIndex == [k \in {} |-> Junk]

\* Position of the last element of s carrying kpid k: a dict comprehension
\* keeps the last value written for a key.
LastPos(s, k) ==
    CHOOSE i \in DOMAIN s : s[i].kpid = k /\ \A j \in DOMAIN s : j > i => s[j].kpid # k

\* {kp['kpid'] for kp in s} and friends raise on the first element that is not
\* a dict (TypeError) or that has no 'kpid' key (KeyError).
SubscriptError(s) ==
    IF \E i \in DOMAIN s : s[i].kind # "dict" \/ s[i].kpid = NoKey
    THEN LET i == CHOOSE j \in DOMAIN s :
                      /\ s[j].kind # "dict" \/ s[j].kpid = NoKey
                      /\ \A m \in 1..(j-1) : s[m].kind = "dict" /\ s[m].kpid # NoKey
         IN  IF s[i].kind # "dict" THEN "TypeError" ELSE "KeyError"
    ELSE "none"

\* _build_index: the new index, or the exception that leaves the old one.
build_index(s) ==
    IF SubscriptError(s) # "none"
    THEN [raised |-> SubscriptError(s), index |-> EmptyIndex]
    ELSE [raised |-> "none",
          index  |-> [k \in {s[i].kpid : i \in DOMAIN s} |-> s[LastPos(s, k)]]]

\* Mutant of save_database: the file is opened for appending, so what was in
\* it stays in front of what is written.
save_database_Appending(s, f, io, partial) ==
    CASE io = "ok"     -> [raised |-> "none",    file |-> JsonFile(f.data \o s)]
      [] io = "denied" -> [raised |-> "IOError", file |-> f]
      [] OTHER         -> [raised |-> "IOError",
                           file |-> IF partial THEN PartialFile ELSE EmptyFile]

\* _save_database: the file after open(db_path, 'w') + json.dump(kps).
\* "denied": open fails, the file is untouched.  "full": open has truncated
\* the file and the write stops part-way (possibly before the first byte).
save_database(s, f, io, partial) ==
    CASE io = "ok"     -> [raised |-> "none",    file |-> JsonFile(s)]
      [] io = "denied" -> [raised |-> "IOError", file |-> f]
      [] OTHER         -> [raised |-> "IOError",
                           file |-> IF partial THEN PartialFile ELSE EmptyFile]

\* get_kp_by_id: kp_index.get(kpid), None when the key is missing.
PyNone == [kind |-> "none", kpid |-> NoKey, parentId |-> Null, title |-> ""]
get_kp_by_id(index, k) == IF k \in DOMAIN index THEN index[k] ELSE PyNone

\* The payload read from the import file: unreadable or unparseable, a JSON
\* value that is not a list, or a list of JSON values.
ListPayload(items) == [shape |-> "list", items |-> items]
NotAList   == [shape |-> "notlist", items |-> <<>>]
Unreadable == [shape |-> "unreadable", items |-> <<>>]

MODES == {"replace", "append", "merge"}

NoSummary == [added |-> 0, updated |-> 0, skipped |-> 0, total |-> 0]

\* Mutant of import_entry: merge counts the update but keeps the old record.
import_entry_MergeKeepsOld(acc, new_kp, existing, index_map, mode) ==
    IF acc.raised # "none" THEN acc
    ELSE IF new_kp.kind # "dict" THEN [acc EXCEPT !.raised = "AttributeError"]
    ELSE IF ~Truthy(new_kp.kpid) THEN [acc EXCEPT !.skipped = @ + 1]
    ELSE IF new_kp.kpid \in existing
         THEN IF mode = "append"
              THEN [acc EXCEPT !.skipped = @ + 1]
              ELSE [acc EXCEPT !.updated = @ + 1]
         ELSE [acc EXCEPT !.kps = Append(@, new_kp), !.added = @ + 1]

\* Mutant of import_entry: append overwrites a pre-existing record while
\* still counting it as skipped.
import_entry_AppendOverwrites(acc, new_kp, existing, index_map, mode) ==
    IF acc.raised # "none" THEN acc
    ELSE IF new_kp.kind # "dict" THEN [acc EXCEPT !.raised = "AttributeError"]
    ELSE IF ~Truthy(new_kp.kpid) THEN [acc EXCEPT !.skipped = @ + 1]
    ELSE IF new_kp.kpid \in existing
         THEN IF mode = "append"
              THEN [acc EXCEPT !.kps[index_map[new_kp.kpid]] = new_kp,
                               !.skipped = @ + 1]
              ELSE [acc EXCEPT !.kps[index_map[new_kp.kpid]] = new_kp,
                               !.updated = @ + 1]
         ELSE [acc EXCEPT !.kps = Append(@, new_kp), !.added = @ + 1]

\* One pass of the loop "for new_kp in new_kps" (lines 117-132).  acc carries
\* self.kps, the counters and the exception that ended the loop, if any.
\* existing and index_map are computed once, before the loop, from the
\* collection as it was then.
import_entry(acc, new_kp, existing, index_map, mode) ==
    IF acc.raised # "none" THEN acc
    ELSE IF new_kp.kind # "dict" THEN [acc EXCEPT !.raised = "AttributeError"]
    ELSE IF ~Truthy(new_kp.kpid) THEN [acc EXCEPT !.skipped = @ + 1]
    ELSE IF new_kp.kpid \in existing
         THEN IF mode = "append"
              THEN [acc EXCEPT !.skipped = @ + 1]
              ELSE [acc EXCEPT !.kps[index_map[new_kp.kpid]] = new_kp,
                               !.updated = @ + 1]
         ELSE [acc EXCEPT !.kps = Append(@, new_kp), !.added = @ + 1]

RECURSIVE import_loop(_, _, _, _, _, _)
import_loop(acc, new_kps, i, existing, index_map, mode) ==
    IF i > Len(new_kps) THEN acc
    ELSE import_loop(import_entry(acc, new_kps[i], existing, index_map, mode),
                     new_kps, i + 1, existing, index_map, mode)

\* Step 2 of import_from_file (lines 105-134): the collection and the counters
\* after the mode's logic, before anything is saved.
import_mode(s, new_kps, mode) ==
    LET start == [kps |-> s, added |-> 0, updated |-> 0, skipped |-> 0,
                  raised |-> "none"]
    IN  IF mode = "replace"
        THEN [start EXCEPT !.kps = new_kps, !.added = Len(new_kps)]
        ELSE IF mode \in {"append", "merge"}
        THEN IF SubscriptError(s) # "none"
             THEN [start EXCEPT !.raised = SubscriptError(s)]
             ELSE import_loop(start, new_kps, 1,
                              {s[i].kpid : i \in DOMAIN s},
                              [k \in {s[i].kpid : i \in DOMAIN s} |-> LastPos(s, k)],
                              mode)
        ELSE [start EXCEPT !.raised = "ValueError"]

\* import_from_file (lines 84-141) as a function of the manager's state, the
\* payload, the mode and what the disk does: the manager's state afterwards,
\* the exception raised ("none" when it returns) and the summary returned.
import_from_file(s, index, f, payload, mode, io, partial) ==
    LET same == [kps |-> s, kp_index |-> index, file |-> f, summary |-> NoSummary]
    IN  IF payload.shape = "unreadable" THEN same @@ [raised |-> "ValueError"]
        ELSE IF payload.shape # "list" THEN same @@ [raised |-> "TypeError"]
        ELSE
        LET m == import_mode(s, payload.items, mode)
        IN  IF m.raised # "none"
            THEN [same EXCEPT !.kps = m.kps] @@ [raised |-> m.raised]
            ELSE
            LET sv == save_database(m.kps, f, io, partial)
                ix == build_index(m.kps)
            IN  IF sv.raised # "none"
                THEN [same EXCEPT !.kps = m.kps, !.file = sv.file]
                         @@ [raised |-> sv.raised]
                ELSE IF ix.raised # "none"
                THEN [same EXCEPT !.kps = m.kps, !.file = sv.file]
                         @@ [raised |-> ix.raised]
                ELSE [kps |-> m.kps, kp_index |-> ix.index, file |-> sv.file,
                      raised |-> "none",
                      summary |-> [added |-> m.added, updated |-> m.updated,
                                   skipped |-> m.skipped, total |-> Len(m.kps)]]

\* _load_data (lines 18-30): the manager built from the file, or the exception
\* that ends construction.  A missing file is first created holding [].
load_data(f) ==
    LET g == IF f.state = "absent" THEN JsonFile(<<>>) ELSE f
    IN  IF g.state = "partial"
        THEN [raised |-> "ValueError", file |-> g, kps |-> <<>>, kp_index |-> EmptyIndex]
        ELSE LET loaded == IF g.state = "empty" THEN <<>> ELSE g.data
                 ix == build_index(loaded)
             IN  [raised |-> ix.raised, file |-> g, kps |-> loaded,
                  kp_index |-> ix.index]

----------------------------------------------------------------------------
(* One manager, driven the way src/main.py and the module's own tests      *)
(* drive it: an invocation constructs the manager from the file, runs      *)
(* imports, and ends when one of them raises.                              *)

NoResult == [op |-> "none", raised |-> "none", summary |-> NoSummary]
NoCall == [kps |-> <<>>, kp_index |-> EmptyIndex, file |-> AbsentFile,
           payload |-> Unreadable, mode |-> "none", io |-> "none"]

NoWalk == [kpid |-> NoKey, ancestry |-> <<>>, current_kp |-> PyNone,
           returned |-> <<>>]

\* Question records.  questionId 0 and importTimestampUTC -1 stand for a
\* missing key; identifiers and clock readings are numbered.
NoQid == 0
NoStamp == 0 - 1
UUIDS == 1..MaxQuestions
STEMS == {"s1", "s2"}
Question(id, stem, ts) ==
    [kind |-> "dict", questionId |-> id, stem |-> stem, importTimestampUTC |-> ts]
QJunk == [kind |-> "other", questionId |-> NoQid, stem |-> "", importTimestampUTC |-> NoStamp]
QNone == [kind |-> "none", questionId |-> NoQid, stem |-> "", importTimestampUTC |-> NoStamp]
\* What json.load(source file) yields: a question with or without a
\* caller-supplied questionId, a JSON value that is not an object, or an error.
QSources == {Question(id, stem, NoStamp) : id \in UUIDS \cup {NoQid}, stem \in STEMS}
QNotFound  == [kind |-> "FileNotFoundError", questionId |-> NoQid, stem |-> "",
               importTimestampUTC |-> NoStamp]
QMalformed == [kind |-> "JSONDecodeError", questionId |-> NoQid, stem |-> "",
               importTimestampUTC |-> NoStamp]

NoQResult == [op |-> "none", raised |-> "none", returned |-> QNone]
NoQCall == [questions |-> <<>>, qfile |-> AbsentFile, issued |-> {},
            source |-> QNone, io |-> "none"]

NoOutline == [stack |-> <<>>, printed |-> <<>>]

QIdle == /\ qfile = AbsentFile /\ questions = <<>> /\ issued = {} /\ clock = 0
         /\ qresult = NoQResult /\ qcalled = NoQCall
RaceIdle == /\ procs = <<>> /\ saves = <<>>

Construct(f) ==
    LET ld == load_data(f)
    IN  /\ file' = ld.file
        /\ kps' = ld.kps
        /\ kp_index' = ld.kp_index
        /\ pc' = IF ld.raised = "none" THEN "ready" ELSE "exited"
        /\ result' = [op |-> "construct", raised |-> ld.raised, summary |-> NoSummary]
        /\ called' = [NoCall EXCEPT !.file = f]

\* main.py lines 13-18 on a fresh installation: no file yet.
Init ==
    /\ file = JsonFile(<<>>)
    /\ kps = <<>>
    /\ kp_index = EmptyIndex
    /\ pc = "ready"
    /\ result = [op |-> "construct", raised |-> "none", summary |-> NoSummary]
    /\ called = NoCall
    /\ walk = NoWalk
    /\ outline = NoOutline
    /\ QIdle
    /\ RaceIdle

\* The call kp_manager.import_from_file(filepath, mode) and everything it does.
DoImport(payload, mode, io, partial) ==
    \E r \in {import_from_file(kps, kp_index, file, payload, mode, io, partial)} :
        /\ Len(r.kps) <= MaxKps
        /\ kps' = r.kps
        /\ kp_index' = r.kp_index
        /\ file' = r.file
        /\ result' = [op |-> "import", raised |-> r.raised, summary |-> r.summary]
        /\ called' = [kps |-> kps, kp_index |-> kp_index, file |-> file,
                      payload |-> payload, mode |-> mode, io |-> io]
        /\ pc' = "returned"
        /\ UNCHANGED <<walk, qVars, outline, raceVars>>

ImportKps ==
    /\ pc = "ready"
    /\ \E items \in SeqsUpTo(KpElements, MaxBatch), mode \in MODES,
       io \in IOOutcomes, partial \in BOOLEAN :
        DoImport(ListPayload(items), mode, io, partial)

ImportBadPayload ==
    /\ pc = "ready"
    /\ \E payload \in {NotAList, Unreadable}, mode \in MODES :
        DoImport(payload, mode, "ok", FALSE)

\* A caller other than the command line can pass any mode string (line 134).
ImportUnknownMode ==
    /\ pc = "ready"
    /\ \E items \in SeqsUpTo(KpElements, 1) :
        DoImport(ListPayload(items), "other", "ok", FALSE)

\* main.py lines 164-175: the summary or the error is printed.  After an
\* exception the invocation is over; after a summary the manager stays usable.
Report ==
    /\ pc = "returned"
    /\ pc' = IF result.raised = "none" THEN "ready" ELSE "exited"
    /\ result' = NoResult
    /\ called' = NoCall
    /\ UNCHANGED <<file, kps, kp_index, walk, qVars, outline, raceVars>>

\* main.py lines 13-18: the next invocation builds its manager from the file.
Restart ==
    /\ pc \in {"ready", "exited"}
    /\ Construct(file)
    /\ UNCHANGED <<walk, qVars, outline, raceVars>>

Next == ImportKps \/ ImportBadPayload \/ ImportUnknownMode \/ Report \/ Restart

Spec == Init /\ [][Next]_vars

----------------------------------------------------------------------------
(* get_ancestry, one loop iteration per step, on a manager constructed     *)
(* from any file of knowledge points that carry a kpid.                    *)

TREE_KPIDS == {"A", "B", "C"}
\* parentId: null, empty, a kpid that may be in the store, or one that never is.
TreeRecords == {Dict(k, p, "old") : k \in TREE_KPIDS,
                                    p \in TREE_KPIDS \cup {Null, EmptyKpid, "Z"}}

\* The walk is cut off after MaxWalk iterations: more than any walk over a
\* store without a cycle needs.
MaxWalk == MaxTree + 1

Reverse(s) == [i \in 1..Len(s) |-> s[Len(s) + 1 - i]]

\* Mutant of ancestry_return: the list is returned in walking order.
ancestry_return_NotReversed(ancestry) == ancestry

\* line 81: return list(reversed(ancestry))
ancestry_return(ancestry) == Reverse(ancestry)

InitTree ==
    /\ \E data \in SeqsUpTo(TreeRecords, MaxTree) :
           /\ file = JsonFile(data)
           /\ kps = load_data(JsonFile(data)).kps
           /\ kp_index = load_data(JsonFile(data)).kp_index
    /\ pc = "ready"
    /\ result = [op |-> "construct", raised |-> "none", summary |-> NoSummary]
    /\ called = NoCall
    /\ walk = NoWalk
    /\ outline = NoOutline
    /\ QIdle
    /\ RaceIdle

\* lines 72-73
AncestryCall ==
    /\ pc = "ready"
    /\ \E k \in TREE_KPIDS :
           walk' = [kpid |-> k, ancestry |-> <<>>,
                    current_kp |-> get_kp_by_id(kp_index, k), returned |-> <<>>]
    /\ pc' = "walking"
    /\ result' = NoResult
    /\ UNCHANGED <<file, kps, kp_index, called, qVars, outline, raceVars>>

AncestryDone(ancestry) ==
    /\ walk' = [walk EXCEPT !.ancestry = ancestry,
                            !.returned = ancestry_return(ancestry)]
    /\ pc' = "returned"
    /\ result' = [op |-> "ancestry", raised |-> "none", summary |-> NoSummary]

\* lines 74-80: one iteration of "while current_kp".
AncestryStep ==
    /\ pc = "walking"
    /\ walk.current_kp # PyNone
    /\ Len(walk.ancestry) < MaxWalk
    /\ LET ancestry == Append(walk.ancestry, walk.current_kp)
           parent_id == walk.current_kp.parentId
       IN  IF Truthy(parent_id)
           THEN /\ walk' = [walk EXCEPT !.ancestry = ancestry,
                                        !.current_kp = get_kp_by_id(kp_index, parent_id)]
                /\ UNCHANGED <<pc, result>>
           ELSE AncestryDone(ancestry)
    /\ UNCHANGED <<file, kps, kp_index, called, qVars, outline, raceVars>>

\* line 74 with current_kp None, then line 81.
AncestryExit ==
    /\ pc = "walking"
    /\ walk.current_kp = PyNone
    /\ AncestryDone(walk.ancestry)
    /\ UNCHANGED <<file, kps, kp_index, called, qVars, outline, raceVars>>

\* The caller takes the returned list; the manager is ready for the next query.
AncestryTaken ==
    /\ pc = "returned"
    /\ result.op = "ancestry"
    /\ pc' = "ready"
    /\ result' = NoResult
    /\ walk' = NoWalk
    /\ UNCHANGED <<file, kps, kp_index, called, qVars, outline, raceVars>>

NextTree == AncestryCall \/ AncestryStep \/ AncestryExit \/ AncestryTaken

SpecTree == InitTree /\ [][NextTree]_vars

----------------------------------------------------------------------------
(* QuestionManager                                                         *)

\* _load_database (lines 24-37): the list in the file; an absent, empty or
\* unparseable file gives the empty list.
load_database(f) == IF f.state = "json" THEN f.data ELSE <<>>

\* _save_database (lines 39-48): like the knowledge-point save, but the
\* IOError is caught and printed, so the caller sees nothing.
q_save_database(qs, f, io, partial) == save_database(qs, f, io, partial).file

\* get_question_by_id (lines 87-100): the first record with that questionId.
get_question_by_id(qs, id) ==
    IF \E i \in DOMAIN qs : qs[i].questionId = id
    THEN qs[CHOOSE i \in DOMAIN qs :
                /\ qs[i].questionId = id
                /\ \A j \in 1..(i - 1) : qs[j].questionId # id]
    ELSE QNone

\* Mutant of assign_id: a questionId the caller supplied is kept.
assign_id_KeepSupplied(question_data, new_id) ==
    IF question_data.questionId # NoQid THEN question_data
    ELSE [question_data EXCEPT !.questionId = new_id]

\* line 73: question_data['questionId'] = new_id
assign_id(question_data, new_id) == [question_data EXCEPT !.questionId = new_id]

\* import_question_from_file (lines 50-85) as a function of the manager's
\* state, the parsed source, the uuid drawn, the clock reading and the disk.
import_question_from_file(qs, f, source, new_id, now, io, partial) ==
    IF source.kind \in {"FileNotFoundError", "JSONDecodeError"}
    THEN [questions |-> qs, qfile |-> f, raised |-> "none", returned |-> QNone]
    ELSE IF source.kind # "dict"
    THEN [questions |-> qs, qfile |-> f, raised |-> "TypeError", returned |-> QNone]
    ELSE LET question_data ==
                 [assign_id(source, new_id) EXCEPT !.importTimestampUTC = now]
             appended == Append(qs, question_data)
         IN  [questions |-> appended,
              qfile |-> q_save_database(appended, f, io, partial),
              raised |-> "none", returned |-> question_data]

KpIdle ==
    /\ file = JsonFile(<<>>) /\ kps = <<>> /\ kp_index = EmptyIndex
    /\ result = NoResult /\ called = NoCall /\ walk = NoWalk
    /\ outline = NoOutline

\* main.py lines 13-18 on a fresh installation: no questions.json yet.
InitQ ==
    /\ qfile = AbsentFile
    /\ questions = load_database(AbsentFile)
    /\ issued = {}
    /\ clock = 0
    /\ qresult = NoQResult
    /\ qcalled = NoQCall
    /\ pc = "ready"
    /\ KpIdle
    /\ RaceIdle

DoImportQuestion(source, new_id, now, io, partial) ==
    \E r \in {import_question_from_file(questions, qfile, source, new_id, now,
                                        io, partial)} :
        /\ questions' = r.questions
        /\ qfile' = r.qfile
        /\ qresult' = [op |-> "import", raised |-> r.raised, returned |-> r.returned]
        /\ qcalled' = [questions |-> questions, qfile |-> qfile, issued |-> issued,
                       source |-> source, io |-> io]
        /\ issued' = IF r.returned # QNone THEN issued \cup {new_id} ELSE issued
        /\ clock' = now
        /\ pc' = "returned"
        /\ UNCHANGED <<file, kps, kp_index, result, called, walk, outline, raceVars>>

\* A source file holding one JSON object.
ImportQuestion ==
    /\ pc = "ready"
    /\ Len(questions) < MaxQuestions
    /\ \E source \in QSources, new_id \in UUIDS \ issued, now \in clock..MaxClock,
          io \in IOOutcomes, partial \in BOOLEAN :
           DoImportQuestion(source, new_id, now, io, partial)

\* A source file that is missing or does not parse: None is returned.
ImportQuestionNoSource ==
    /\ pc = "ready"
    /\ \E source \in {QNotFound, QMalformed} :
           DoImportQuestion(source, NoQid, clock, "ok", FALSE)

\* A source file holding a JSON value that is not an object (a list of
\* questions, for one): line 73 raises TypeError.
ImportQuestionNotDict ==
    /\ pc = "ready"
    /\ DoImportQuestion(QJunk, NoQid, clock, "ok", FALSE)

\* A source file holding a one-element JSON list that wraps a question: the
\* batch form the command's help text announces (main.py line 127).  It takes
\* the same path as any value that is not an object.
QListSources == {[q EXCEPT !.kind = "list"] : q \in QSources}
ImportQuestionList ==
    /\ pc = "ready"
    /\ \E source \in QListSources :
           DoImportQuestion(source, NoQid, clock, "ok", FALSE)

\* main.py lines 129-140: the outcome is printed; an exception ends the
\* invocation.
QReport ==
    /\ pc = "returned"
    /\ pc' = IF qresult.raised = "none" THEN "ready" ELSE "exited"
    /\ qresult' = NoQResult
    /\ qcalled' = NoQCall
    /\ UNCHANGED <<qfile, questions, issued, clock,
                   file, kps, kp_index, result, called, walk, outline, raceVars>>

\* main.py lines 13-18: the next invocation builds its manager from the file.
QRestart ==
    /\ pc \in {"ready", "exited"}
    /\ questions' = load_database(qfile)
    /\ pc' = "ready"
    /\ UNCHANGED <<qfile, issued, clock, qresult, qcalled,
                   file, kps, kp_index, result, called, walk, outline, raceVars>>

NextQ == \/ ImportQuestion \/ ImportQuestionNoSource \/ ImportQuestionNotDict
         \/ ImportQuestionList
         \/ QReport \/ QRestart

SpecQ == InitQ /\ [][NextQ]_vars

----------------------------------------------------------------------------
(* Two invocations of src/main.py against the same two files.  Each builds *)
(* its managers from the files (lines 13-18), runs one import command and  *)
(* ends; nothing orders the steps of one against the steps of the other.   *)

PROCS == {1, 2}

RaceRecords == {Dict(k, Null, t) : k \in KPIDS, t \in TITLES}
RaceBases == {<<>>, <<Dict("A", Null, "old")>>}

NotStarted ==
    [pc |-> "idle", kps |-> <<>>, kp_index |-> EmptyIndex, questions |-> <<>>,
     loaded_kps |-> <<>>, loaded_questions |-> <<>>, loaded_after |-> 0,
     cmd |-> "none", batch |-> <<>>, mode |-> "none", raised |-> "none",
     summary |-> NoSummary, returned |-> QNone]

\* Some earlier invocation has left the knowledge-point file as it is now.
InitRace ==
    /\ \E base \in RaceBases : file = JsonFile(base)
    /\ qfile = AbsentFile
    /\ procs = [p \in PROCS |-> NotStarted]
    /\ saves = <<>>
    /\ kps = <<>> /\ kp_index = EmptyIndex /\ pc = "ready"
    /\ result = NoResult /\ called = NoCall /\ walk = NoWalk
    /\ outline = NoOutline
    /\ questions = <<>> /\ issued = {} /\ clock = 0
    /\ qresult = NoQResult /\ qcalled = NoQCall

singleVars == <<kps, kp_index, pc, result, called, walk, outline, questions,
                qresult, qcalled>>

\* main.py lines 13-18: both managers are constructed from the files.
RaceStart(p) ==
    /\ procs[p].pc = "idle"
    /\ \E ld \in {load_data(file)} :
           /\ file' = ld.file
           /\ procs' = [procs EXCEPT ![p] =
                  [@ EXCEPT !.pc = IF ld.raised = "none" THEN "loaded" ELSE "exited",
                            !.kps = ld.kps, !.kp_index = ld.kp_index,
                            !.questions = load_database(qfile),
                            !.loaded_kps = ld.kps,
                            !.loaded_questions = load_database(qfile),
                            !.loaded_after = Len(saves),
                            !.raised = ld.raised]]
    /\ UNCHANGED <<qfile, saves, issued, clock, singleVars>>

\* main.py lines 155-175: kp import.
RaceImportKps(p) ==
    /\ procs[p].pc = "loaded"
    /\ \E items \in SeqsUpTo(RaceRecords, MaxRaceBatch), mode \in MODES,
          io \in IOOutcomes, partial \in BOOLEAN :
         \E r \in {import_from_file(procs[p].kps, procs[p].kp_index, file,
                                    ListPayload(items), mode, io, partial)} :
           /\ file' = r.file
           /\ procs' = [procs EXCEPT ![p] =
                  [@ EXCEPT !.pc = "done", !.kps = r.kps, !.kp_index = r.kp_index,
                            !.cmd = "kp", !.batch = items, !.mode = mode,
                            !.raised = r.raised, !.summary = r.summary]]
           /\ saves' = IF io = "ok" THEN Append(saves, [proc |-> p, store |-> "kp"])
                       ELSE saves
    /\ UNCHANGED <<qfile, issued, clock, singleVars>>

\* main.py lines 124-140: question import.
RaceImportQuestion(p) ==
    /\ procs[p].pc = "loaded"
    /\ \E source \in {Question(NoQid, stem, NoStamp) : stem \in STEMS},
          new_id \in UUIDS \ issued, io \in IOOutcomes, partial \in BOOLEAN :
         \E r \in {import_question_from_file(procs[p].questions, qfile, source,
                                             new_id, clock, io, partial)} :
           /\ qfile' = r.qfile
           /\ issued' = issued \cup {new_id}
           /\ procs' = [procs EXCEPT ![p] =
                  [@ EXCEPT !.pc = "done", !.questions = r.questions,
                            !.cmd = "question", !.batch = <<>>,
                            !.raised = r.raised, !.returned = r.returned]]
           /\ saves' = IF io = "ok" THEN Append(saves, [proc |-> p, store |-> "q"])
                       ELSE saves
    /\ UNCHANGED <<file, clock, singleVars>>

NextRace ==
    \E p \in PROCS : RaceStart(p) \/ RaceImportKps(p) \/ RaceImportQuestion(p)

SpecRace == InitRace /\ [][NextRace]_vars

----------------------------------------------------------------------------
(* print_outline, one printed line or one return per step, on a manager    *)
(* whose collection is built by imports of records that carry a kpid and   *)
(* a parentId.                                                             *)

OutlineRecords == {Dict(k, p, "old") : k \in KPIDS, p \in KPIDS \cup {Null}}

\* The walk is cut off after MaxPrinted lines: one more than a walk that
\* prints every record once.
MaxPrinted == MaxKps + 1

\* Python's order on the kpid strings of the model.
KPID_ORDER == <<"", "A", "B", "C", "Z">>
Rank(k) == CHOOSE i \in DOMAIN KPID_ORDER : KPID_ORDER[i] = k

\* sorted(..., key=lambda x: x['kpid']) over the positions I of s: ascending
\* kpid, equal kpids in their original order.
RECURSIVE sorted_by_kpid(_, _)
sorted_by_kpid(s, I) ==
    IF I = {} THEN <<>>
    ELSE LET m == CHOOSE i \in I : \A j \in I :
                      \/ Rank(s[i].kpid) < Rank(s[j].kpid)
                      \/ Rank(s[i].kpid) = Rank(s[j].kpid) /\ i <= j
         IN  <<m>> \o sorted_by_kpid(s, I \ {m})

\* lines 53-58: children_map.get(parent_id, []) sorted; the children are
\* named by their positions in self.kps.
children_of(s, parent_id) ==
    sorted_by_kpid(s, {i \in DOMAIN s : s[i].parentId = parent_id})

\* One activation of _print_recursive: its argument, its sorted children and
\* the position of the loop.
Frame(s, parent_id) ==
    [parent_id |-> parent_id, children |-> children_of(s, parent_id), i |-> 1]

ImportOutlineKps ==
    /\ pc = "ready"
    /\ \E items \in SeqsUpTo(OutlineRecords, MaxBatch), mode \in MODES,
          io \in IOOutcomes, partial \in BOOLEAN :
           DoImport(ListPayload(items), mode, io, partial)

\* lines 47-51 and 68: an empty collection prints a notice and returns;
\* otherwise the walk starts at the null parent.
OutlineCall ==
    /\ pc = "ready"
    /\ IF kps = <<>>
       THEN /\ outline' = NoOutline
            /\ pc' = "printed"
       ELSE /\ outline' = [stack |-> <<Frame(kps, Null)>>, printed |-> <<>>]
            /\ pc' = "printing"
    /\ UNCHANGED <<file, kps, kp_index, result, called, walk, qVars, raceVars>>

\* lines 59-66: the next child is printed and _print_recursive is entered
\* for its kpid.
OutlineStep ==
    /\ pc = "printing"
    /\ Len(outline.printed) < MaxPrinted
    /\ LET d == Len(outline.stack)
           top == outline.stack[d]
       IN  /\ top.i <= Len(top.children)
           /\ outline' =
                [stack |-> Append([outline.stack EXCEPT ![d].i = @ + 1],
                                  Frame(kps, kps[top.children[top.i]].kpid)),
                 printed |-> Append(outline.printed,
                                    [depth |-> d - 1, idx |-> top.children[top.i]])]
    /\ UNCHANGED <<file, kps, kp_index, pc, result, called, walk, qVars, raceVars>>

\* line 59 with the children exhausted: the activation returns; the return
\* of the outermost one ends print_outline (line 69).
OutlineReturn ==
    /\ pc = "printing"
    /\ LET d == Len(outline.stack)
       IN  /\ outline.stack[d].i > Len(outline.stack[d].children)
           /\ outline' = [outline EXCEPT !.stack = SubSeq(@, 1, d - 1)]
           /\ pc' = IF d = 1 THEN "printed" ELSE "printing"
    /\ UNCHANGED <<file, kps, kp_index, result, called, walk, qVars, raceVars>>

\* main.py lines 142-145: the command is over.
OutlineTaken ==
    /\ pc = "printed"
    /\ pc' = "ready"
    /\ outline' = NoOutline
    /\ UNCHANGED <<file, kps, kp_index, result, called, walk, qVars, raceVars>>

NextOutline == \/ ImportOutlineKps \/ Report \/ Restart
               \/ OutlineCall \/ OutlineStep \/ OutlineReturn \/ OutlineTaken

SpecOutline == Init /\ [][NextOutline]_vars

----------------------------------------------------------------------------
(* Vocabulary of the import claims.  An entry "has a kpid" when the loop's *)
(* test "if not kpid" lets it through: the key is present and not empty.   *)

ImportReturned ==
    /\ pc = "returned" /\ result.op = "import" /\ result.raised = "none"
ImportCalled(mode) ==
    /\ pc = "returned" /\ result.op = "import"
    /\ called.payload.shape = "list" /\ called.mode = mode

Batch == called.payload.items
KpidsOf(s) == {s[i].kpid : i \in DOMAIN s}
HasKpid(r) == r.kind = "dict" /\ Truthy(r.kpid)
PreExisted(r) == HasKpid(r) /\ r.kpid \in KpidsOf(called.kps)
AllRecords(s) == \A i \in DOMAIN s : s[i].kind = "dict"
NumPreExisting == Cardinality({i \in DOMAIN Batch : PreExisted(Batch[i])})
NumNew == Cardinality({i \in DOMAIN Batch : HasKpid(Batch[i]) /\ ~PreExisted(Batch[i])})
NumWithoutKpid == Cardinality({i \in DOMAIN Batch : ~HasKpid(Batch[i])})
LastEntry(k) == Batch[LastPos(Batch, k)]

\* C1 (as stated): after a merge import that returns, updated counts the
\* entries whose kpid pre-existed, added counts the entries with a new kpid,
\* and get(kpid) equals EVERY entry whose kpid pre-existed.
C1_MergeEveryEntry ==
    (ImportCalled("merge") /\ ImportReturned) =>
        /\ result.summary.updated = NumPreExisting
        /\ result.summary.added = NumNew
        /\ \A i \in DOMAIN Batch :
               PreExisted(Batch[i]) => get_kp_by_id(kp_index, Batch[i].kpid) = Batch[i]

\* C1 (amended): after a merge import that returns, updated counts the
\* entries whose kpid pre-existed, added counts the entries with a new kpid,
\* and get(kpid) for a pre-existing kpid equals the LAST batch entry carrying
\* that kpid.
C1_MergeLastEntry ==
    (ImportCalled("merge") /\ ImportReturned) =>
        /\ result.summary.updated = NumPreExisting
        /\ result.summary.added = NumNew
        /\ \A i \in DOMAIN Batch :
               PreExisted(Batch[i]) =>
                   get_kp_by_id(kp_index, Batch[i].kpid) = LastEntry(Batch[i].kpid)

\* A merge into a store of two records whose batch carries the same
\* pre-existing kpid twice, with different fields: both entries count as
\* updates.
C1_Witness ==
    /\ ImportCalled("merge") /\ ImportReturned
    /\ result.summary.updated = 2
    /\ Len(Batch) = 2 /\ Batch[1].kpid = Batch[2].kpid /\ Batch[1] # Batch[2]
    /\ Len(called.kps) = 2

\* C2: an append import changes, removes and reorders no record that was in
\* the collection, and no key of the lookup changes its record; when it
\* returns, skipped = pre-existing entries + entries without a kpid, added =
\* the remaining entries, updated = 0.
C2_AppendFrame ==
    ImportCalled("append") =>
        /\ Len(kps) >= Len(called.kps)
        /\ \A i \in DOMAIN called.kps : kps[i] = called.kps[i]
        /\ \A k \in DOMAIN called.kp_index :
               get_kp_by_id(kp_index, k) = called.kp_index[k]
        /\ ImportReturned =>
               /\ result.summary.skipped = NumPreExisting + NumWithoutKpid
               /\ result.summary.added = Len(Batch) - result.summary.skipped
               /\ result.summary.updated = 0
               /\ Len(kps) = Len(called.kps) + result.summary.added

\* An append that returned having added one entry and skipped one, the
\* batch holding an entry whose kpid pre-existed with other fields.
C2_Witness ==
    /\ ImportCalled("append") /\ ImportReturned
    /\ result.summary.skipped = 1 /\ result.summary.added = 1
    /\ \E i \in DOMAIN Batch :
           /\ PreExisted(Batch[i])
           /\ called.kp_index[Batch[i].kpid] # Batch[i]

\* C3: a replace import of any batch of records completes (the disk
\* permitting) with the collection's kpid set equal to the batch's, every
\* other old kpid absent from get, and the summary (len, 0, 0, len).
C3_ReplaceCompletes ==
    (ImportCalled("replace") /\ AllRecords(Batch) /\ called.io = "ok") =>
        /\ result.raised = "none"
        /\ KpidsOf(kps) = KpidsOf(Batch)
        /\ \A k \in DOMAIN called.kp_index :
               k \notin KpidsOf(Batch) => get_kp_by_id(kp_index, k) = PyNone
        /\ result.summary = [added |-> Len(Batch), updated |-> 0, skipped |-> 0,
                             total |-> Len(Batch)]

\* C4: in every mode an import of a batch of records completes (the disk
\* permitting), every entry without a kpid is counted in skipped and in
\* neither added nor updated, and no such entry is in the collection.
C4_NoKpidSkipped ==
    (\E mode \in MODES : ImportCalled(mode)) /\ AllRecords(Batch) /\ called.io = "ok"
    /\ AllRecords(called.kps) /\ (\A i \in DOMAIN called.kps : HasKpid(called.kps[i]))
    =>  /\ result.raised = "none"
        /\ result.summary.skipped >= NumWithoutKpid
        /\ result.summary.added + result.summary.updated <= Len(Batch) - NumWithoutKpid
        /\ \A i \in DOMAIN kps : HasKpid(kps[i])

\* C5: after any sequence of imports into the initially empty store, whenever
\* an operation has returned normally no two records share a kpid.
NoDuplicateKpid(s) == \A i, j \in DOMAIN s : s[i].kpid = s[j].kpid => i = j
C5_KpidUnique ==
    result.raised = "none" => NoDuplicateKpid(kps)

\* C7: an import whose payload is not a list, or is a list with an element
\* that is not a record, raises and leaves the collection, the lookup and
\* the file as they were.
C7_BadPayloadNoMutation ==
    (pc = "returned" /\ result.op = "import"
     /\ (called.payload.shape # "list" \/ ~AllRecords(Batch))) =>
        /\ result.raised # "none"
        /\ kps = called.kps
        /\ kp_index = called.kp_index
        /\ file = called.file

----------------------------------------------------------------------------
(* Ancestry.                                                               *)

AncestryReturned == pc = "returned" /\ result.op = "ancestry"
Chained(s) == \A i \in 1..(Len(s) - 1) : s[i + 1].parentId = s[i].kpid
\* Following parentId from k through the lookup comes back to a record
\* already visited.
RECURSIVE OnCycle(_, _, _)
OnCycle(index, k, fuel) ==
    IF k \notin DOMAIN index \/ ~Truthy(index[k].parentId) THEN FALSE
    ELSE IF fuel = 0 THEN TRUE
    ELSE OnCycle(index, index[k].parentId, fuel - 1)
Acyclic(index) == \A k \in DOMAIN index : ~OnCycle(index, k, Cardinality(DOMAIN index))

\* C6 (as stated): in a store without a cycle, ancestry(k) of a present k is
\* non-empty, starts at a record with parentId == null (read as the code
\* reads it on line 77: null, missing or empty), ends at the record of k and
\* is chained by parentId; of an absent k it is empty.
C6_AncestryFromNull ==
    (AncestryReturned /\ Acyclic(kp_index)) =>
        IF walk.kpid \in DOMAIN kp_index
        THEN /\ walk.returned # <<>>
             /\ ~Truthy(walk.returned[1].parentId)
             /\ walk.returned[Len(walk.returned)] = kp_index[walk.kpid]
             /\ Chained(walk.returned)
        ELSE walk.returned = <<>>

\* C6 (amended): in a store without a cycle the walk ends within as many
\* iterations as the lookup has keys; ancestry(k) of a present k is
\* non-empty, starts at a record whose parentId is null, empty or names a
\* kpid that is not in the store, ends at the record of k and is chained by
\* parentId; of an absent k it is empty.
C6_AncestryFromTop ==
    /\ (pc = "walking" /\ Acyclic(kp_index)) =>
           Len(walk.ancestry) <= Cardinality(DOMAIN kp_index)
    /\ (AncestryReturned /\ Acyclic(kp_index)) =>
        IF walk.kpid \in DOMAIN kp_index
        THEN /\ walk.returned # <<>>
             /\ \/ ~Truthy(walk.returned[1].parentId)
                \/ walk.returned[1].parentId \notin DOMAIN kp_index
             /\ walk.returned[Len(walk.returned)] = kp_index[walk.kpid]
             /\ Chained(walk.returned)
        ELSE walk.returned = <<>>

\* A three-record chain walked from its leaf, and its top is a dangling link.
C6_Witness ==
    /\ AncestryReturned /\ Acyclic(kp_index)
    /\ Len(walk.returned) = 3
    /\ Truthy(walk.returned[1].parentId)

----------------------------------------------------------------------------
(* Question import.                                                        *)

QuestionAccepted ==
    pc = "returned" /\ qresult.op = "import" /\ qresult.returned # QNone
QidsDistinct(qs) ==
    \A i, j \in DOMAIN qs : qs[i].questionId = qs[j].questionId => i = j

\* C8: an accepted question import gives the record an identifier that was
\* never issued before and is not in the collection (whatever questionId the
\* source carried), stamps the clock reading, and appends exactly that
\* record: the count grows by 1, getById(new id) returns it, and at all times
\* the questionIds of the collection are pairwise distinct.
C8_FreshIdAppended ==
    /\ QidsDistinct(questions)
    /\ QuestionAccepted =>
        LET q == qresult.returned
        IN  /\ q.questionId \in issued \ qcalled.issued
            /\ \A i \in DOMAIN qcalled.questions :
                   qcalled.questions[i].questionId # q.questionId
            /\ q.importTimestampUTC = clock /\ q.importTimestampUTC # NoStamp
            /\ q.stem = qcalled.source.stem
            /\ Len(questions) = Len(qcalled.questions) + 1
            /\ questions = Append(qcalled.questions, q)
            /\ get_question_by_id(questions, q.questionId) = q

\* A third import whose source carried the questionId of a record already
\* in the collection, and got another one.
C8_Witness ==
    /\ QuestionAccepted
    /\ Len(questions) = 3
    /\ qcalled.source.questionId # NoQid
    /\ \E i \in DOMAIN qcalled.questions :
           qcalled.questions[i].questionId = qcalled.source.questionId
    /\ qresult.returned.questionId # qcalled.source.questionId

\* C9: no import of either store returns a success result (a summary, an
\* accepted record) while the file differs from the in-memory collection.
C9_SaveFailureSurfaced ==
    /\ (pc = "returned" /\ result.op = "import" /\ result.raised = "none")
           => file = JsonFile(kps)
    /\ QuestionAccepted => qfile = JsonFile(questions)

\* C11: importing one record directly and importing a one-element list
\* wrapping that record give equivalent results: either call returns
\* normally with exactly one accepted record, which carries the source's
\* fields apart from the identifier and the timestamp, and either call grows
\* the collection by exactly one question.
C11_SingleEqualsBatch ==
    (pc = "returned" /\ qresult.op = "import"
     /\ qcalled.source.kind \in {"dict", "list"}) =>
        /\ qresult.raised = "none"
        /\ qresult.returned # QNone
        /\ qresult.returned.stem = qcalled.source.stem
        /\ Len(questions) = Len(qcalled.questions) + 1

----------------------------------------------------------------------------
(* Concurrent invocations.                                                 *)

\* Invocations p and q both imported into the same store and both reported
\* success; p saved first, q saved last, and q had built its manager before
\* p saved.
LostUpdateRun(p, q, store) ==
    /\ p # q
    /\ procs[p].pc = "done" /\ procs[q].pc = "done"
    /\ procs[p].raised = "none" /\ procs[q].raised = "none"
    /\ procs[p].cmd = procs[q].cmd
    /\ saves = <<[proc |-> p, store |-> store], [proc |-> q, store |-> store]>>
    /\ procs[q].loaded_after = 0

\* C10: when two invocations load the same file and the second saves last,
\* both report success and the file holds exactly the last writer's
\* collection: a record the first writer added is in the file only if the
\* last writer had loaded it or imported it itself.
C10_LastWriterWins ==
    \A p, q \in PROCS :
        /\ LostUpdateRun(p, q, "kp") =>
               /\ file = JsonFile(procs[q].kps)
               /\ \A i \in DOMAIN procs[p].batch :
                      (/\ procs[p].batch[i] \notin Range(procs[q].loaded_kps)
                       /\ procs[p].batch[i] \notin Range(procs[q].batch))
                      => procs[p].batch[i] \notin Range(file.data)
        /\ LostUpdateRun(p, q, "q") =>
               /\ qfile = JsonFile(procs[q].questions)
               /\ procs[p].returned \notin Range(qfile.data)

\* Both invocations reported success, each added a record, and the first
\* writer's record is not in the file.
C10_Witness ==
    \E p, q \in PROCS :
        /\ LostUpdateRun(p, q, "kp")
        /\ procs[p].summary.added = 1 /\ procs[q].summary.added = 1
        /\ procs[p].batch[1] \notin Range(file.data)
        /\ procs[q].batch[1] \in Range(file.data)

----------------------------------------------------------------------------
(* Outline.                                                                *)

\* C12: on every store imports can build, the outline walk from the null
\* parent prints each record at most once (so it ends after at most as many
\* lines as there are records), and every activation visits its children in
\* ascending kpid order.
C12_OutlineFinite ==
    pc \in {"printing", "printed"} =>
        /\ \A i, j \in DOMAIN outline.printed :
               outline.printed[i].idx = outline.printed[j].idx => i = j
        /\ Len(outline.printed) <= Len(kps)
        /\ \A d \in DOMAIN outline.stack :
               \A a, b \in DOMAIN outline.stack[d].children :
                   a < b => Rank(kps[outline.stack[d].children[a]].kpid)
                              <= Rank(kps[outline.stack[d].children[b]].kpid)

====
